---- MODULE Spec2Model ----
(***************************************************************************)
(* Model of resources/sys_patch/sys_patch_auto.py (AutomaticSysPatch):     *)
(* the decision cycle start_auto_patch with its two helper checks          *)
(* _determine_if_versions_match and _determine_if_boot_matches.            *)
(*                                                                         *)
(* Every external collaborator (update probe, seal probe, patch detection, *)
(* network check, preference store, disk probes, dialogs, osascript) is an *)
(* input drawn with \E at the point where the code queries it.  The order  *)
(* of the queries is recorded in `trace`, the dialogs shown in `prompts`,  *)
(* the users' answers in `answers` and the downstream actions (hand-off,   *)
(* browser, privileged re-invocation) in `launched`.                       *)
(***************************************************************************)
EXTENDS Integers, Sequences, FiniteSets, TLC

VARIABLES
    pc,               \* position of the cycle inside start_auto_patch
    constants,        \* self.constants (process-wide configuration)
    dict,             \* local `dict` of start_auto_patch (update probe result)
    detected,         \* value returned by detect_patch_set, before line 72
    patches,          \* local `patches` of start_auto_patch
    versions_match,   \* value returned by _determine_if_versions_match
    should_notify,    \* local of _determine_if_boot_matches
    root_disk,        \* local of _determine_if_boot_matches
    physical_stores,  \* local of _determine_if_boot_matches
    disk_info,        \* local of _determine_if_boot_matches
    trace,            \* probes queried and helpers entered, in order
    prompts,          \* dialogs presented, in order
    answers,          \* <<dialog, answer>> pairs, in order
    launched          \* downstream actions triggered, in order

\* install_auto_patcher_launch_agent and _create_rsr_monitor_daemon
VARIABLES
    ipc,              \* position inside install_auto_patcher_launch_agent
    fs,               \* the files and directories the installer touches
    commands,         \* subprocesses run: [run, argv, rc], in order
    rsr_needed,       \* value returned by _create_rsr_monitor_daemon
    layouts           \* `fs` at the end of each completed run, in order

installVars == <<ipc, fs, commands, rsr_needed, layouts>>

vars == <<pc, constants, dict, detected, patches, versions_match, should_notify,
          root_disk, physical_stores, disk_info, trace, prompts, answers,
          launched, installVars>>

-----------------------------------------------------------------------------
(* Python values *)

\* None, for string-typed attributes
None == "None"

\* Optional booleans and unset locals: <<>> is None/unset, <<v>> is the value v
Unset == <<>>
Some(v) == <<v>>

\* {} / [] : the empty mapping, which is falsy
Empty == <<>>
Truthy(m) == DOMAIN m # {}

-----------------------------------------------------------------------------
(* Python string primitives used by the code *)

CharSet(p) == { SubSeq(p, i, i) : i \in 1..Len(p) }

\* str.startswith
StartsWith(s, p) == Len(s) >= Len(p) /\ SubSeq(s, 1, Len(p)) = p

\* str.endswith
EndsWith(s, p) == Len(s) >= Len(p) /\ SubSeq(s, Len(s) - Len(p) + 1, Len(s)) = p

\* `needle in hay` on strings
Contains(needle, hay) ==
    \E i \in 1..(Len(hay) - Len(needle) + 1) :
        SubSeq(hay, i, i + Len(needle) - 1) = needle

RECURSIVE LStrip(_, _)
LStrip(s, chars) ==
    IF Len(s) > 0 /\ SubSeq(s, 1, 1) \in chars
    THEN LStrip(SubSeq(s, 2, Len(s)), chars)
    ELSE s

RECURSIVE RStrip(_, _)
RStrip(s, chars) ==
    IF Len(s) > 0 /\ SubSeq(s, Len(s), Len(s)) \in chars
    THEN RStrip(SubSeq(s, 1, Len(s) - 1), chars)
    ELSE s

\* str.strip(chars): removes leading and trailing characters of the set
Strip(s, chars) == RStrip(LStrip(s, CharSet(chars)), CharSet(chars))

\* str.split(sep)[0] for a one-character separator
SplitFirst(s, sep) ==
    LET idx == { i \in 1..Len(s) : SubSeq(s, i, i) = sep }
    IN  IF idx = {} THEN s
        ELSE SubSeq(s, 1, (CHOOSE i \in idx : \A j \in idx : i <= j) - 1)

-----------------------------------------------------------------------------
(* Input universes *)

\* Longest chain of partition/slice suffixes of a booted disk identifier
MaxSlices == 2
\* Longest list of APFS physical stores returned by the disk probe
MaxStores == 2

Versions == { "1.0.0", "1.1.0" }

LauncherBinary == "/Applications/OpenCore-Patcher.app/Contents/MacOS/OpenCore-Patcher"
LauncherScripts == { None, "OpenCore-Patcher-GUI.command" }

\* Keys of a PatchReport: patch names and the two reserved-prefix families
PatchKeys == { "Graphics: Nvidia Kepler",
               "Miscellaneous: Legacy USB 1.1",
               "Settings: Requires AMFI exemption",
               "Validation: Patching Possible" }

\* Every report over the keys: each key absent, false or true
Reports == UNION { [K -> BOOLEAN] : K \in SUBSET PatchKeys }

\* Two reports, one that leads to the prompt and one that does not
FewReports ==
    { [k \in PatchKeys |-> k = "Validation: Patching Possible"],
      [k \in PatchKeys |-> TRUE] }

\* check_binary_updates(): None, or {"Version": ..., "Github Link": ...}
UpdateDict(v, link) == ("Version" :> v) @@ ("Github Link" :> link)
UpdateResults ==
    { Empty,
      UpdateDict("1.1.0", "https://github.com/dortania/OpenCore-Legacy-Patcher/releases/tag/1.1.0"),
      UpdateDict("1.2.0", "https://github.com/dortania/OpenCore-Legacy-Patcher/releases/tag/1.2.0") }

\* Disk identifiers: disk<N>, disk<N>s<M>, disk<N>s<M>s<K>, ...
DiskNumbers == { "0", "1", "2", "10" }
SliceNumbers == { "1", "2" }

RECURSIVE SliceSuffix(_)
SliceSuffix(sl) ==
    IF sl = <<>> THEN "" ELSE "s" \o Head(sl) \o SliceSuffix(Tail(sl))

DiskIdentifiers ==
    { "disk" \o n \o SliceSuffix(sl) :
        n \in DiskNumbers,
        sl \in UNION { [1..m -> SliceNumbers] : m \in 0..MaxSlices } }

\* constants.booted_oc_disk: unknown (None), empty, or an identifier
BootDisks == { None, "" } \cup DiskIdentifiers
FewBootDisks == { None, "", "disk0s1", "disk2s1" }

\* APFS physical stores are partitions
StoreIdentifiers == { "disk0s2", "disk1s1", "disk10s2" }
StoreLists == UNION { [1..m -> StoreIdentifiers] : m \in 0..MaxStores }
FewStoreLists == { <<"disk0s2">>, <<"disk0s2", "disk1s1">> }

\* diskutil info -plist: a mapping that may or may not hold "Ejectable"
DiskInfos == UNION { [K -> BOOLEAN] : K \in SUBSET { "Ejectable", "Internal" } }

\* wx.ID_YES / wx.ID_NO / wx.ID_CANCEL
DialogResponses == { "ID_YES", "ID_NO", "ID_CANCEL" }

\* exit status of a subprocess: success, or failure / user cancelled
ReturnCodes == { 0, 1 }

-----------------------------------------------------------------------------
(* State after construction *)

Append2(s, a, b) == Append(Append(s, a), b)

InitWith(disks, scripts, booted_versions) ==
    /\ pc = "start"
    /\ constants \in
         [ wxpython_variant    : BOOLEAN,
           launcher_binary     : { LauncherBinary },
           launcher_script     : scripts,
           patcher_version     : Versions,
           oclp_version        : booted_versions,
           special_build       : BOOLEAN,
           host_is_hackintosh  : BOOLEAN,
           booted_oc_disk      : disks,
           start_build_install : { FALSE } ]
    /\ dict = Empty
    /\ detected = Unset
    /\ patches = Empty
    /\ versions_match = Unset
    /\ should_notify = Unset
    /\ root_disk = None
    /\ physical_stores = <<>>
    /\ disk_info = Empty
    /\ trace = <<>>
    /\ prompts = <<>>
    /\ answers = <<>>
    /\ launched = <<>>
    /\ ipc = "idle"
    /\ fs = <<>>
    /\ commands = <<>>
    /\ rsr_needed = Unset
    /\ layouts = <<>>

Init == InitWith(FewBootDisks, LauncherScripts, Versions \cup { None })

locals == <<dict, detected, patches, versions_match, should_notify, root_disk,
            physical_stores, disk_info>>
bootLocals == <<should_notify, root_disk, physical_stores, disk_info>>

-----------------------------------------------------------------------------
(* start_auto_patch *)

\* Variant of IsActionable without the prefix filter
IsActionable_AnyTrue(report) ==
    \E patch \in DOMAIN report : report[patch] = TRUE

\* line 72: some key outside the Settings/Validation families is True
IsActionable(report) ==
    \E patch \in DOMAIN report :
        /\ ~StartsWith(patch, "Settings")
        /\ ~StartsWith(patch, "Validation")
        /\ report[patch] = TRUE

\* lines 72-73: a report without an applicable patch is replaced by []
FilterPatches(report) == IF IsActionable(report) THEN report ELSE Empty

\* lines 82-84: the patches listed in the confirmation dialog
PatchString(report) ==
    { patch \in DOMAIN report :
        /\ report[patch] = TRUE
        /\ ~StartsWith(patch, "Settings")
        /\ ~StartsWith(patch, "Validation") }

\* lines 87-90: the command handed to the privileged shell
ArgsString(c) ==
    IF c.launcher_script = None
    THEN "'" \o c.launcher_binary \o "' --gui_patch"
    ELSE c.launcher_binary \o " " \o c.launcher_script \o " --gui_patch"

\* lines 92-94: the warning is text of the dialog, nothing else
WarningStr(network_ok) ==
    IF network_ok = FALSE THEN "WARNING: unable to verify new releases" ELSE ""

\* Variant of StartAutoPatch without the test of line 44
StartAutoPatch_IgnoresVariant ==
    /\ pc = "start"
    /\ pc' = "check_binary_updates"
    /\ UNCHANGED installVars
    /\ UNCHANGED <<constants, locals, trace, prompts, answers, launched>>

\* lines 43-46: only the GUI variant runs the cycle
StartAutoPatch ==
    /\ pc = "start"
    /\ pc' = IF constants.wxpython_variant = FALSE
             THEN "done"
             ELSE "check_binary_updates"
    /\ UNCHANGED installVars
    /\ UNCHANGED <<constants, locals, trace, prompts, answers, launched>>

\* lines 48-62: query the update probe; an update opens the three-way dialog
CheckBinaryUpdates(results) ==
    /\ pc = "check_binary_updates"
    /\ \E d \in results :
        /\ dict' = d
        /\ trace' = Append(trace, "check_binary_updates")
        /\ IF Truthy(d)
           THEN /\ prompts' = Append(prompts,
                                [kind |-> "update", text |-> d["Version"]])
                /\ pc' = "update_dialog"
           ELSE /\ prompts' = prompts
                /\ pc' = "check_seal"
    /\ UNCHANGED installVars
    /\ UNCHANGED <<constants, detected, patches, versions_match, bootLocals,
                   answers, launched>>

\* Variant of AfterUpdateDialog where "Ignore" misses the return
AfterUpdateDialog_IgnoreFallsThrough(response) ==
    IF response = "ID_CANCEL" THEN "check_seal" ELSE "done"

\* line 67: the cycle returns whatever the answer was
AfterUpdateDialog(response) == "done"

\* lines 62-67: the user's answer to the update dialog, then return
UpdateDialogResponse ==
    /\ pc = "update_dialog"
    /\ \E response \in DialogResponses :
        /\ answers' = Append(answers, <<"update", response>>)
        /\ launched' =
             IF response = "ID_YES"
             THEN Append(launched, <<"gui_entry", "UPDATE_APP">>)
             ELSE IF response = "ID_NO"
             THEN Append(launched, <<"webbrowser", dict["Github Link"]>>)
             ELSE launched
        /\ pc' = AfterUpdateDialog(response)
    /\ UNCHANGED installVars
    /\ UNCHANGED <<constants, locals, trace, prompts>>

\* Variant of AfterSeal that returns on a broken seal
AfterSeal_BrokenReturns(seal) ==
    IF seal = TRUE THEN "detect_patch_set" ELSE "done"

\* lines 69 and 124-127: an intact seal leads to detection, a broken one
\* to the log line of 125 and on to line 127
AfterSeal(seal) ==
    IF seal = TRUE THEN "detect_patch_set" ELSE "determine_if_versions_match"

\* lines 69-70 and 124-127: the seal probe
CheckSeal ==
    /\ pc = "check_seal"
    /\ \E seal \in BOOLEAN :
        /\ trace' = Append(trace, IF seal THEN "check_seal:True"
                                          ELSE "check_seal:False")
        /\ pc' = AfterSeal(seal)
    /\ UNCHANGED installVars
    /\ UNCHANGED <<constants, locals, prompts, answers, launched>>

\* Variant of AfterDetection without the check of line 76
AfterDetection_IgnoresValidation(filtered) ==
    IF Truthy(filtered)
    THEN "verify_network_connection"
    ELSE "determine_if_versions_match"

\* lines 74-80 and 122-127: where control goes once `patches` is filtered
AfterDetection(filtered) ==
    IF Truthy(filtered)
    THEN IF "Validation: Patching Possible" \notin DOMAIN filtered
         THEN "raised"                         \* KeyError, line 76
         ELSE IF filtered["Validation: Patching Possible"] = FALSE
              THEN "done"                      \* line 78
              ELSE "verify_network_connection"
    ELSE "determine_if_versions_match"         \* lines 122-127

\* lines 71-80: run the detection probe and classify its report
DetectPatchSet(reports) ==
    /\ pc = "detect_patch_set"
    /\ \E r \in reports :
        /\ trace' = Append(trace, "detect_patch_set")
        /\ detected' = Some(r)
        /\ patches' = FilterPatches(r)
        /\ pc' = AfterDetection(FilterPatches(r))
    /\ UNCHANGED installVars
    /\ UNCHANGED <<constants, dict, versions_match, bootLocals,
                   prompts, answers, launched>>

\* lines 81-106: check the network, then show the confirmation dialog
PresentPatchPrompt ==
    /\ pc = "verify_network_connection"
    /\ \E network_ok \in BOOLEAN :
        /\ trace' = Append(trace, IF network_ok
                                   THEN "verify_network_connection:True"
                                   ELSE "verify_network_connection:False")
        /\ prompts' = Append(prompts,
                        [kind |-> "patch",
                         text |-> <<PatchString(patches), WarningStr(network_ok)>>])
    /\ pc' = "patch_dialog"
    /\ UNCHANGED installVars
    /\ UNCHANGED <<constants, locals, answers, launched>>

\* Variant of AfterPatchDialog that escalates whatever the answer
AfterPatchDialog_Always(returncode) == "gui_patch"

\* lines 107 and 121: only exit status 0 of the dialog leads to line 108
AfterPatchDialog(returncode) == IF returncode = 0 THEN "gui_patch" ELSE "done"

\* lines 102-107 and 121: the dialog's exit status gates the escalation
PatchDialogResponse ==
    /\ pc = "patch_dialog"
    /\ \E returncode \in ReturnCodes :
        /\ answers' = Append(answers, <<"patch", returncode>>)
        /\ pc' = AfterPatchDialog(returncode)
    /\ UNCHANGED installVars
    /\ UNCHANGED <<constants, locals, trace, prompts, launched>>

\* lines 108-121: one privileged re-invocation, its result is discarded
RunGuiPatch ==
    /\ pc = "gui_patch"
    /\ \E status \in ReturnCodes :
        launched' = Append(launched,
                      <<"osascript_admin", ArgsString(constants), status>>)
    /\ pc' = "done"
    /\ UNCHANGED installVars
    /\ UNCHANGED <<constants, locals, trace, prompts, answers>>

-----------------------------------------------------------------------------
(* _determine_if_versions_match *)

\* Variant of VersionsPrecheck that tests special_build before equality
VersionsPrecheck_SpecialFirst(c) ==
    IF c.oclp_version = None THEN "True"
    ELSE IF c.special_build = TRUE THEN "False"
    ELSE IF c.oclp_version = c.patcher_version THEN "True"
    ELSE "compare"

\* lines 142-154: what is decided before the comparator is consulted
VersionsPrecheck(c) ==
    IF c.oclp_version = None THEN "True"                    \* line 144
    ELSE IF c.oclp_version = c.patcher_version THEN "True"  \* line 148
    ELSE IF c.special_build = TRUE THEN "False"             \* line 154
    ELSE "compare"

\* Variant of AfterVersionsMatch that runs the boot-disk check regardless
AfterVersionsMatch_Always(ret) == "determine_if_boot_matches"

\* lines 127-128: the boot-disk check runs only on a True return
AfterVersionsMatch(ret) ==
    IF ret THEN "determine_if_boot_matches" ELSE "done"

\* Variant of VersionDialogReturn that reports a match when the user declines
VersionDialogReturn_DeclineIsMatch(returncode) == returncode # 0

\* line 177: the value returned once the mismatch dialog was answered
VersionDialogReturn(returncode) == FALSE

\* lines 141-166
DetermineIfVersionsMatch ==
    /\ pc = "determine_if_versions_match"
    /\ LET entered == Append(trace, "_determine_if_versions_match")
           pre     == VersionsPrecheck(constants)
       IN  IF pre # "compare"
           THEN /\ trace' = entered
                /\ versions_match' = Some(pre = "True")
                /\ pc' = AfterVersionsMatch(pre = "True")
                /\ prompts' = prompts
           ELSE \E newer \in BOOLEAN :
                /\ trace' = Append(entered, IF newer THEN "check_if_newer:True"
                                                     ELSE "check_if_newer:False")
                /\ IF newer
                   THEN /\ versions_match' = Some(TRUE)     \* line 159
                        /\ pc' = AfterVersionsMatch(TRUE)
                        /\ prompts' = prompts
                   ELSE /\ versions_match' = versions_match
                        /\ pc' = "version_dialog"
                        /\ prompts' = Append(prompts,
                             [kind |-> "version",
                              text |-> <<constants.oclp_version,
                                         constants.patcher_version>>])
    /\ UNCHANGED installVars
    /\ UNCHANGED <<constants, dict, detected, patches, bootLocals, answers, launched>>

\* lines 167-177, then lines 127-128 of the caller
VersionDialogResponse ==
    /\ pc = "version_dialog"
    /\ \E returncode \in ReturnCodes :
        /\ answers' = Append(answers, <<"version", returncode>>)
        /\ IF returncode = 0
           THEN /\ constants' = [constants EXCEPT !.start_build_install = TRUE]
                /\ launched' = Append(launched, <<"gui_entry", "BUILD_OC">>)
           ELSE UNCHANGED <<constants, launched>>
        /\ versions_match' = Some(VersionDialogReturn(returncode))
        /\ pc' = AfterVersionsMatch(VersionDialogReturn(returncode))
    /\ UNCHANGED installVars
    /\ UNCHANGED <<dict, detected, patches, bootLocals, trace, prompts>>

-----------------------------------------------------------------------------
(* _determine_if_boot_matches *)

\* AutoPatch_Notify_Mismatched_Disks: absent, True or False
Preferences == { Unset, Some(TRUE), Some(FALSE) }

\* Variant of SkipBootCheck without the hackintosh test
SkipBootCheck_NoHackintosh(notify, c) ==
    \/ notify = Some(FALSE)
    \/ c.booted_oc_disk = None
    \/ c.booted_oc_disk = ""

\* lines 196-204: the three early returns
SkipBootCheck(notify, c) ==
    \/ notify = Some(FALSE)
    \/ c.host_is_hackintosh = TRUE
    \/ c.booted_oc_disk = None
    \/ c.booted_oc_disk = ""

\* Variant of RootDisk that keeps the partition suffix
RootDisk_NoSplit(booted) == "disk" \o Strip(booted, "disk")

\* lines 206-207: strip the characters d, i, s, k from both ends, keep what
\* precedes the first "s", and put "disk" in front again
RootDisk(booted) == "disk" \o SplitFirst(Strip(booted, "disk"), "s")

\* lines 215-220: some store's identifier contains the root disk's
DiskMatch(root, stores) ==
    \E i \in 1..Len(stores) : Contains(root, stores[i])

\* Variant of EjectableDecision that reads a missing key as removable
EjectableDecision_MissingIsRemovable(info) ==
    IF "Ejectable" \in DOMAIN info /\ info["Ejectable"] = FALSE
    THEN "not_removable"
    ELSE "prompt"

\* lines 229-234 and 252-253: "KeyError", "not_removable" or "prompt"
EjectableDecision(info) ==
    IF "Ejectable" \notin DOMAIN info THEN "KeyError"
    ELSE IF info["Ejectable"] = FALSE THEN "not_removable"
    ELSE "prompt"

\* lines 193-226
DetermineIfBootMatches(storeLists) ==
    /\ pc = "determine_if_boot_matches"
    /\ \E notify \in Preferences :
        LET entered == Append2(trace, "_determine_if_boot_matches",
                                      "read_property")
        IN  /\ should_notify' = notify
            /\ IF SkipBootCheck(notify, constants)
               THEN /\ trace' = entered
                    /\ pc' = "done"
                    /\ UNCHANGED <<root_disk, physical_stores>>
               ELSE \E stores \in storeLists :
                    /\ root_disk' = RootDisk(constants.booted_oc_disk)
                    /\ physical_stores' = stores
                    /\ trace' = Append2(entered, "get_disk_path",
                                        "find_apfs_physical_volume")
                    /\ pc' = IF DiskMatch(root_disk', stores)
                             THEN "done"
                             ELSE "diskutil_info"
    /\ UNCHANGED installVars
    /\ UNCHANGED <<constants, dict, detected, patches, versions_match,
                   disk_info, prompts, answers, launched>>

\* lines 228-241 and 252-253
DiskutilInfo ==
    /\ pc = "diskutil_info"
    /\ \E info \in DiskInfos :
        /\ disk_info' = info
        /\ trace' = Append(trace, "diskutil_info")
        /\ IF EjectableDecision(info) = "prompt"
           THEN /\ prompts' = Append(prompts,
                                [kind |-> "boot", text |-> root_disk])
                /\ pc' = "boot_dialog"
           ELSE /\ prompts' = prompts
                /\ pc' = "done"
    /\ UNCHANGED installVars
    /\ UNCHANGED <<constants, dict, detected, patches, versions_match,
                   should_notify, root_disk, physical_stores, answers,
                   launched>>

\* Variant of BootDialogResponse that sets the flag before reading the answer
BootDialogResponse_FlagBeforeAnswer ==
    /\ pc = "boot_dialog"
    /\ \E returncode \in ReturnCodes :
        /\ answers' = Append(answers, <<"boot", returncode>>)
        /\ constants' = [constants EXCEPT !.start_build_install = TRUE]
        /\ launched' = IF returncode = 0
                       THEN Append(launched, <<"gui_entry", "BUILD_OC">>)
                       ELSE launched
    /\ pc' = "done"
    /\ UNCHANGED installVars
    /\ UNCHANGED <<locals, trace, prompts>>

\* lines 242-250
BootDialogResponse ==
    /\ pc = "boot_dialog"
    /\ \E returncode \in ReturnCodes :
        /\ answers' = Append(answers, <<"boot", returncode>>)
        /\ IF returncode = 0
           THEN /\ constants' = [constants EXCEPT !.start_build_install = TRUE]
                /\ launched' = Append(launched, <<"gui_entry", "BUILD_OC">>)
           ELSE UNCHANGED <<constants, launched>>
    /\ pc' = "done"
    /\ UNCHANGED installVars
    /\ UNCHANGED <<locals, trace, prompts>>

-----------------------------------------------------------------------------
(* Specifications *)

\* The decision cycle over every PatchReport, with a few disks
Next ==
    \/ StartAutoPatch
    \/ CheckBinaryUpdates(UpdateResults)
    \/ UpdateDialogResponse
    \/ CheckSeal
    \/ DetectPatchSet(Reports)
    \/ PresentPatchPrompt
    \/ PatchDialogResponse
    \/ RunGuiPatch
    \/ DetermineIfVersionsMatch
    \/ VersionDialogResponse
    \/ DetermineIfBootMatches(FewStoreLists)
    \/ DiskutilInfo
    \/ BootDialogResponse

Spec == Init /\ [][Next]_vars

\* The decision cycle over every boot disk and store list, with two reports
InitDisk == InitWith(BootDisks, { None }, { "1.0.0" })

NextDisk ==
    \/ StartAutoPatch
    \/ CheckBinaryUpdates(UpdateResults)
    \/ UpdateDialogResponse
    \/ CheckSeal
    \/ DetectPatchSet(FewReports)
    \/ PresentPatchPrompt
    \/ PatchDialogResponse
    \/ RunGuiPatch
    \/ DetermineIfVersionsMatch
    \/ VersionDialogResponse
    \/ DetermineIfBootMatches(StoreLists)
    \/ DiskutilInfo
    \/ BootDialogResponse

SpecDisk == InitDisk /\ [][NextDisk]_vars

-----------------------------------------------------------------------------
(* Vocabulary of the properties *)

InTrace(e) == \E i \in 1..Len(trace) : trace[i] = e
Prompted(kind) == \E i \in 1..Len(prompts) : prompts[i].kind = kind
Launches(kind) == { i \in 1..Len(launched) : launched[i][1] = kind }

SealCheckRun == InTrace("check_seal:True") \/ InTrace("check_seal:False")
PatchDetectionRun == InTrace("detect_patch_set")
NetworkCheckRun ==
    InTrace("verify_network_connection:True") \/ InTrace("verify_network_connection:False")
VersionCheckRun == InTrace("_determine_if_versions_match")
BootCheckRun == InTrace("_determine_if_boot_matches")

\* The keys of a report that name patches, listed one by one
PatchNames == { "Graphics: Nvidia Kepler", "Miscellaneous: Legacy USB 1.1" }
ValidationKey == "Validation: Patching Possible"

\* Every key outside the Settings/Validation families is false (or absent)
NoPatchApplies(r) == \A k \in PatchNames \cap DOMAIN r : r[k] = FALSE

-----------------------------------------------------------------------------
(* C1: when the update probe returns an update, the three-way dialog is    *)
(* shown and the cycle ends after the answer: "Download and install" hands *)
(* off in UPDATE mode, "View on web" opens the browser with the probe's    *)
(* link, "Ignore" does nothing; the seal check, patch detection, version   *)
(* check and boot-disk check never run in that cycle.                      *)
C1_UpdateEndsCycle ==
    Truthy(dict) =>
        /\ Len(prompts) = 1 /\ prompts[1].kind = "update"
        /\ pc \in { "update_dialog", "done" }
        /\ ~SealCheckRun /\ ~PatchDetectionRun
        /\ ~VersionCheckRun /\ ~BootCheckRun
        /\ pc = "update_dialog" => answers = <<>> /\ launched = <<>>
        /\ pc = "done" =>
            /\ Len(answers) = 1 /\ answers[1][1] = "update"
            /\ answers[1][2] = "ID_YES" =>
                 launched = << <<"gui_entry", "UPDATE_APP">> >>
            /\ answers[1][2] = "ID_NO" =>
                 launched = << <<"webbrowser", dict["Github Link"]>> >>
            /\ answers[1][2] = "ID_CANCEL" => launched = <<>>

\* "View on web" was chosen and the cycle is over
C1_Witness ==
    /\ pc = "done"
    /\ Truthy(dict)
    /\ answers = << <<"update", "ID_NO">> >>
    /\ Len(launched) = 1 /\ launched[1][1] = "webbrowser"

(* C2, as stated: with no update and a seal that is not intact the cycle   *)
(* terminates: no patch detection, no version check, no boot-disk check    *)
(* and no prompt in that cycle.                                            *)
C2_SealBrokenTerminates ==
    InTrace("check_seal:False") =>
        /\ ~PatchDetectionRun
        /\ ~VersionCheckRun
        /\ ~BootCheckRun
        /\ prompts = <<>>

(* C2, amended: with no update and a seal that is not intact, patch        *)
(* detection is skipped, no patch confirmation is shown and nothing is     *)
(* run with privileges, but the cycle does not terminate there: it goes    *)
(* on to the version-match check.                                          *)
C2_SealBrokenSkipsDetection ==
    InTrace("check_seal:False") =>
        /\ ~Truthy(dict)
        /\ ~PatchDetectionRun
        /\ ~NetworkCheckRun
        /\ ~Prompted("patch")
        /\ Launches("osascript_admin") = {}
        /\ pc = "determine_if_versions_match" \/ VersionCheckRun

\* seal not intact, and the version dialog was shown in the same cycle
C2_Witness ==
    /\ InTrace("check_seal:False")
    /\ pc = "done"
    /\ VersionCheckRun
    /\ Prompted("version")

(* C3: a report in which every key outside the Settings/Validation         *)
(* families is false (or which has no such key) is not actionable: no      *)
(* patch confirmation, nothing run with privileges, and the cycle goes on  *)
(* to the version-match check, whatever the Settings/Validation values.    *)
C3_NonActionableFallsThrough ==
    (detected # Unset /\ NoPatchApplies(detected[1])) =>
        /\ patches = Empty
        /\ ~NetworkCheckRun
        /\ ~Prompted("patch")
        /\ Launches("osascript_admin") = {}
        /\ pc \notin { "raised", "verify_network_connection",
                       "patch_dialog", "gui_patch" }
        /\ pc = "determine_if_versions_match" \/ VersionCheckRun

\* only a Settings key is true, patching is flagged impossible, and the
\* version check has run
C3_Witness ==
    /\ detected = Some([k \in PatchKeys |->
                          k = "Settings: Requires AMFI exemption"])
    /\ VersionCheckRun
    /\ pc = "done"

(* C4: an actionable report whose "Validation: Patching Possible" is false *)
(* ends the cycle quietly: no dialog, nothing run with privileges, no      *)
(* version-match check and no boot-disk check.                             *)
C4_CannotPatchTerminates ==
    ( /\ detected # Unset
      /\ ~NoPatchApplies(detected[1])
      /\ ValidationKey \in DOMAIN detected[1]
      /\ detected[1][ValidationKey] = FALSE ) =>
        /\ pc = "done"
        /\ prompts = <<>> /\ answers = <<>> /\ launched = <<>>
        /\ ~NetworkCheckRun /\ ~VersionCheckRun /\ ~BootCheckRun
        /\ constants.start_build_install = FALSE

\* a patch applies, a Settings key is true, patching is not possible
C4_Witness ==
    /\ detected = Some([k \in PatchKeys |-> k # ValidationKey])
    /\ pc = "done"

(* C5: with an actionable report and patching possible, the confirmation   *)
(* is shown whether or not the network check succeeds (a failure only adds *)
(* the warning); the privileged "--gui_patch" re-invocation runs if and    *)
(* only if the answer was affirmative, once, whatever its exit status; the *)
(* cycle ends without the version-match or boot-disk checks.               *)
C5_PatchPromptGatesElevation ==
    ( /\ detected # Unset
      /\ ~NoPatchApplies(detected[1])
      /\ ValidationKey \in DOMAIN detected[1]
      /\ detected[1][ValidationKey] = TRUE ) =>
        /\ pc \in { "verify_network_connection", "patch_dialog",
                    "gui_patch", "done" }
        /\ ~VersionCheckRun /\ ~BootCheckRun
        /\ \A i \in 1..Len(prompts) : prompts[i].kind = "patch"
        /\ pc = "verify_network_connection" => prompts = <<>>
        /\ pc # "verify_network_connection" =>
            /\ Len(prompts) = 1
            /\ NetworkCheckRun
            /\ prompts[1].text[1] =
                 { k \in PatchNames \cap DOMAIN detected[1] : detected[1][k] }
            /\ (prompts[1].text[2] # "") <=>
                 InTrace("verify_network_connection:False")
        /\ Len(launched) <= 1
        /\ pc \in { "verify_network_connection", "patch_dialog" } =>
             answers = <<>> /\ launched = <<>>
        /\ pc = "gui_patch" => answers = << <<"patch", 0>> >> /\ launched = <<>>
        /\ pc = "done" =>
            /\ Len(answers) = 1 /\ answers[1][1] = "patch"
            /\ (answers[1][2] = 0) <=> (Len(launched) = 1)
            /\ Len(launched) = 1 =>
                /\ launched[1][1] = "osascript_admin"
                /\ EndsWith(launched[1][2], " --gui_patch")

\* the network check failed, the user agreed, the re-invocation failed,
\* and the cycle is over
C5_Witness ==
    /\ pc = "done"
    /\ InTrace("verify_network_connection:False")
    /\ answers = << <<"patch", 0>> >>
    /\ Len(launched) = 1
    /\ launched[1][1] = "osascript_admin"
    /\ launched[1][3] = 1

(* C6: _determine_if_versions_match returns true without prompting when   *)
(* no booted version is recorded and when booted and installed strings are *)
(* equal (whatever special_build is); when they differ on a special build  *)
(* it returns false without consulting the comparator and without          *)
(* prompting; when they differ, the build is not special and the           *)
(* comparator reports true, it returns true without prompting.             *)
C6_VersionsMatchDecisions ==
    VersionCheckRun =>
        LET booted    == constants.oclp_version
            installed == constants.patcher_version
            differ    == booted # None /\ booted # installed
            compared  == InTrace("check_if_newer:True")
                           \/ InTrace("check_if_newer:False")
        IN  /\ booted = None =>
                 versions_match = Some(TRUE) /\ ~Prompted("version")
            /\ (booted # None /\ booted = installed) =>
                 versions_match = Some(TRUE) /\ ~Prompted("version")
            /\ (differ /\ constants.special_build = TRUE) =>
                 /\ versions_match = Some(FALSE)
                 /\ ~compared
                 /\ ~Prompted("version")
            /\ (differ /\ constants.special_build = FALSE
                       /\ InTrace("check_if_newer:True")) =>
                 versions_match = Some(TRUE) /\ ~Prompted("version")

\* equal version strings on a special build: the check reported a match
C6_Witness ==
    /\ VersionCheckRun
    /\ constants.oclp_version = constants.patcher_version
    /\ constants.special_build = TRUE
    /\ versions_match = Some(TRUE)

(* C7: once the mismatch dialog is reached the check returns false whether *)
(* the user accepts or declines, and the boot-disk check runs only after a *)
(* true return; so a cycle that showed the mismatch dialog, or found a     *)
(* special-build mismatch, queries no boot-disk probe and shows no         *)
(* boot-disk dialog.                                                       *)
C7_MismatchSkipsBootCheck ==
    /\ (\E i \in 1..Len(answers) : answers[i][1] = "version") =>
         versions_match = Some(FALSE)
    /\ (BootCheckRun \/ pc = "determine_if_boot_matches") =>
         versions_match = Some(TRUE)
    /\ (Prompted("version") \/ versions_match = Some(FALSE)) =>
         /\ ~BootCheckRun
         /\ ~InTrace("read_property")
         /\ ~InTrace("get_disk_path")
         /\ ~InTrace("find_apfs_physical_volume")
         /\ ~InTrace("diskutil_info")
         /\ ~Prompted("boot")
         /\ pc \in { "version_dialog", "done" }

\* the user declined the mismatch dialog and the cycle is over
C7_Witness ==
    /\ pc = "done"
    /\ answers = << <<"version", 1>> >>
    /\ versions_match = Some(FALSE)

(* C8: _determine_if_boot_matches does nothing when the preference         *)
(* AutoPatch_Notify_Mismatched_Disks is false, or the host is a            *)
(* hackintosh, or the booted disk is unknown or empty: no disk probe is    *)
(* queried, no dialog shown, start_build_install unchanged, no hand-off.   *)
C8_BootCheckNoOp ==
    ( /\ BootCheckRun
      /\ \/ should_notify = Some(FALSE)
         \/ constants.host_is_hackintosh = TRUE
         \/ constants.booted_oc_disk \in { None, "" } ) =>
        /\ pc = "done"
        /\ ~InTrace("get_disk_path")
        /\ ~InTrace("find_apfs_physical_volume")
        /\ ~InTrace("diskutil_info")
        /\ root_disk = None /\ physical_stores = <<>> /\ disk_info = Empty
        /\ prompts = <<>> /\ answers = <<>>
        /\ constants.start_build_install = FALSE
        /\ launched = <<>>

\* a hackintosh with the preference on and a known boot disk
C8_Witness ==
    /\ BootCheckRun
    /\ constants.host_is_hackintosh = TRUE
    /\ should_notify = Some(TRUE)
    /\ constants.booted_oc_disk = "disk2s1"
    /\ pc = "done"

\* chains of partition/slice numbers, and the store of disk n
SliceChains == UNION { [1..m -> SliceNumbers] : m \in 0..MaxSlices }
StoreOnDisk(store, n) == \E m \in SliceNumbers : store = "disk" \o n \o "s" \o m

(* C9: a booted identifier disk<N> or disk<N>s<M>[s<K>...] is normalized   *)
(* to disk<N>, and whenever some physical store lies on that base disk the *)
(* disks match: no removability lookup and no dialog.                      *)
C9_NormalizedDiskMatches ==
    root_disk # None =>
        \A n \in DiskNumbers, sl \in SliceChains :
            constants.booted_oc_disk = "disk" \o n \o SliceSuffix(sl) =>
                /\ root_disk = "disk" \o n
                /\ (\E i \in 1..Len(physical_stores) :
                        StoreOnDisk(physical_stores[i], n)) =>
                     /\ pc = "done"
                     /\ ~InTrace("diskutil_info")
                     /\ disk_info = Empty
                     /\ prompts = <<>>
                     /\ launched = <<>>

\* booted from disk0s1 with stores [disk0s2, disk1s1]
C9_Witness ==
    /\ constants.booted_oc_disk = "disk0s1"
    /\ root_disk = "disk0"
    /\ physical_stores = <<"disk0s2", "disk1s1">>
    /\ pc = "done"

(* C10: when the boot disk matches no physical store, the relocation       *)
(* dialog is shown only if the disk-info lookup holds "Ejectable" with a   *)
(* value that is not false; with Ejectable false and with the key missing  *)
(* there is no dialog, no flag change and no hand-off.                     *)
C10_PromptOnlyIfEjectable ==
    /\ Prompted("boot") => InTrace("diskutil_info")
    /\ InTrace("diskutil_info") =>
        /\ Prompted("boot") <=>
             ("Ejectable" \in DOMAIN disk_info /\ disk_info["Ejectable"] # FALSE)
        /\ ~Prompted("boot") =>
             /\ pc = "done"
             /\ prompts = <<>> /\ answers = <<>>
             /\ constants.start_build_install = FALSE
             /\ launched = <<>>

\* booted from disk2s1 with stores [disk0s2], Ejectable is false
C10_Witness ==
    /\ constants.booted_oc_disk = "disk2s1"
    /\ physical_stores = <<"disk0s2">>
    /\ InTrace("diskutil_info")
    /\ "Ejectable" \in DOMAIN disk_info /\ disk_info["Ejectable"] = FALSE
    /\ pc = "done"

(* C15: under a non-GUI (TUI) configuration start_auto_patch returns at    *)
(* once: no probe is queried, no dialog shown, nothing handed off or run    *)
(* with privileges, and the configuration is unchanged.                    *)
C15_TuiReturnsImmediately ==
    constants.wxpython_variant = FALSE =>
        /\ pc \in { "start", "done" }
        /\ trace = <<>>
        /\ prompts = <<>> /\ answers = <<>> /\ launched = <<>>
        /\ dict = Empty /\ detected = Unset /\ patches = Empty
        /\ versions_match = Unset /\ should_notify = Unset
        /\ root_disk = None /\ physical_stores = <<>> /\ disk_info = Empty
        /\ constants.start_build_install = FALSE

\* a TUI configuration whose cycle is over
C15_Witness ==
    /\ constants.wxpython_variant = FALSE
    /\ pc = "done"

\* the dialogs whose acceptance starts Build/Install, and a declined dialog
AcceptedAt(i) ==
    /\ answers[i][1] \in { "version", "boot" }
    /\ answers[i][2] = 0
DeclinedAt(i) ==
    \/ answers[i][1] = "update" /\ answers[i][2] = "ID_CANCEL"
    \/ answers[i][1] \in { "patch", "version", "boot" } /\ answers[i][2] # 0

(* C19: start_build_install becomes true only on acceptance of the         *)
(* version-mismatch or the boot-disk dialog, and then the application is   *)
(* launched in BUILD_OC mode; it is never set on the update, patch,        *)
(* declined or no-dialog paths, and declining a dialog changes nothing.    *)
C19_FlagOnlyOnAcceptance ==
    /\ constants.start_build_install = TRUE <=>
         (\E i \in 1..Len(answers) : AcceptedAt(i))
    /\ constants.start_build_install = TRUE =>
         /\ launched = << <<"gui_entry", "BUILD_OC">> >>
         /\ Len(answers) = 1
         /\ pc = "done"
    /\ Launches("gui_entry") # {} /\ constants.start_build_install = FALSE =>
         answers = << <<"update", "ID_YES">> >>
    /\ \A i \in 1..Len(answers) : DeclinedAt(i) =>
         /\ constants.start_build_install = FALSE
         /\ launched = <<>>
         /\ pc = "done"

\* the relocation dialog was accepted
C19_Witness ==
    /\ constants.start_build_install = TRUE
    /\ Len(answers) = 1 /\ answers[1][1] = "boot"
    /\ launched = << <<"gui_entry", "BUILD_OC">> >>

(* C20: in one run of start_auto_patch at most one of the four dialogs is  *)
(* shown and at most one downstream action (UPDATE hand-off, browser,      *)
(* privileged --gui_patch run, BUILD_OC hand-off) is triggered.            *)
C20_AtMostOnePromptAndAction ==
    /\ Len(prompts) <= 1
    /\ Len(answers) <= 1
    /\ Len(launched) <= 1
    /\ \A i \in 1..Len(prompts) :
         prompts[i].kind \in { "update", "patch", "version", "boot" }
    /\ \A i \in 1..Len(launched) :
         launched[i][1] \in { "gui_entry", "webbrowser", "osascript_admin" }

\* the version check passed and the relocation dialog led to a hand-off
C20_Witness ==
    /\ pc = "done"
    /\ VersionCheckRun
    /\ Len(prompts) = 1 /\ prompts[1].kind = "boot"
    /\ Len(launched) = 1

-----------------------------------------------------------------------------
(* install_auto_patcher_launch_agent: paths and file contents *)

SupportPrefix == "/Library/Application Support/Dortania/"
CanonicalApp == "OpenCore-Patcher.app"
StagedApp == SupportPrefix \o CanonicalApp
AppAlias == "/Applications/OpenCore-Patcher.app"
BinarySuffix == "/Contents/MacOS/OpenCore-Patcher"
AgentPlist == "com.dortania.opencore-legacy-patcher.auto-patch.plist"
DaemonPlist == "com.dortania.opencore-legacy-patcher.rsr-monitor.plist"
PrebootUUID == "5F0A8B5E-7E4C-4A5B-9C3D-2B1A6E9F0C11"

\* Most exit statuses other than 0 that one run of the installer may meet
MaxFailures == 2
\* Runs of the installer in succession
MaxRuns == 2
\* Most kernel extensions found in /Library/Extensions
MaxKexts == 2

\* str.split(sep)[0] for a separator of any length
SplitHead(s, sep) ==
    LET idx == { i \in 1..(Len(s) - Len(sep) + 1) :
                     SubSeq(s, i, i + Len(sep) - 1) = sep }
    IN  IF idx = {} THEN s
        ELSE SubSeq(s, 1, (CHOOSE i \in idx : \A j \in idx : i <= j) - 1)

\* str.split(sep)[-1] for a one-character separator
SplitLast(s, sep) ==
    LET idx == { i \in 1..Len(s) : SubSeq(s, i, i) = sep }
    IN  IF idx = {} THEN s
        ELSE SubSeq(s, (CHOOSE i \in idx : \A j \in idx : i >= j) + 1, Len(s))

\* Where the running binary may live: a download with a suffixed name, the
\* application at /Applications, the staged copy
DownloadedBinary == "/Users/Shared/OpenCore-Patcher 3.app" \o BinarySuffix
StagedBinary == StagedApp \o BinarySuffix

\* <<launcher_binary, launcher_script>>
InstallConfigs ==
    { <<DownloadedBinary, None>>,
      <<LauncherBinary, None>>,
      <<StagedBinary, None>>,
      <<DownloadedBinary, "OpenCore-Patcher-GUI.command">> }
FewInstallConfigs == { <<DownloadedBinary, None>> }

\* An application bundle: its files (path -> version) and whether it still
\* carries the quarantine attribute
Bundle(files, quarantine) == [ files |-> files, quarantine |-> quarantine ]
CurrentFiles == ("Contents/MacOS/OpenCore-Patcher" :> "1.1.0")
StaleFiles == ("Contents/MacOS/OpenCore-Patcher" :> "1.0.0")
                @@ ("Contents/Resources/Stale.plist" :> "1.0.0")
RunningBundle == Bundle(CurrentFiles, TRUE)

\* A file: content, permission bits, owner
File(content, mode, owner) == [ content |-> content, mode |-> mode, owner |-> owner ]
AgentContent == "auto-patch.plist"
Modes == { "644", "600" }

\* Contents of the support directory before the installer runs
SupportDirs ==
    { Unset,
      Some(<<>>),
      Some(CanonicalApp :> Bundle(StaleFiles, FALSE)),
      Some(CanonicalApp :> Bundle(CurrentFiles, FALSE)),
      Some((CanonicalApp :> Bundle(StaleFiles, FALSE))
             @@ ("OpenCore-Patcher 3.app" :> Bundle(StaleFiles, TRUE))) }
FewSupportDirs == { Unset, Some(CanonicalApp :> Bundle(StaleFiles, FALSE)) }

\* /Library/LaunchAgents and /Library/LaunchDaemons before the installer runs
AgentDirs ==
    { Unset,
      Some(<<>>),
      Some(AgentPlist :> File("auto-patch.plist (old)", "600", "user:staff")) }
DaemonFile(template) == File(template, "600", "user:staff")

\* What is at /Applications/OpenCore-Patcher.app
Aliases == { "absent", "staged_symlink", "dangling_symlink", "app" }

\* The rsr-monitor descriptor template
Template(arguments, watch) ==
    [ Label |-> "com.dortania.opencore-legacy-patcher.rsr-monitor",
      ProgramArguments |-> arguments,
      WatchPaths |-> watch ]
ShippedTemplate ==
    Template(<<"rm", "-Rfv", "/Library/Extensions/HighPoint*">>,
             <<"/System/Volumes/Preboot/UUID/cryptex1/current/OS.dmg",
               "/System/Volumes/Preboot">>)
UsedTemplate ==
    Template(<<"rm", "-Rfv", "/Library/Extensions/Old.kext">>,
             <<"/System/Volumes/Preboot/0000/cryptex1/current/OS.dmg">>)
Templates == { ShippedTemplate, UsedTemplate }

DaemonDirs ==
    { Unset, Some(<<>>), Some(DaemonPlist :> DaemonFile(UsedTemplate)) }

\* /Library/Extensions/*.kext in glob order, with the state of Info.plist
KextNames == { "AMDRadeonX4000.kext", "Lilu.kext", "NVDAStartup.kext" }
PlistKinds == { "missing", "unparseable", "GPUCompanionBundles", "other" }
Kext(name, plist) == [ name |-> name, plist |-> plist ]
KextLists ==
    { l \in UNION { [1..m -> [name : KextNames, plist : PlistKinds]] :
                      m \in 0..MaxKexts } :
        \A i, j \in 1..Len(l) : i # j => l[i].name # l[j].name }
FewKextLists ==
    { <<>>,
      <<Kext("Lilu.kext", "other")>>,
      <<Kext("Lilu.kext", "unparseable"),
        Kext("AMDRadeonX4000.kext", "GPUCompanionBundles")>> }

-----------------------------------------------------------------------------
(* The file system as the installer sees it *)

DirExists(d) == d # Unset
HasEntry(d, name) == d # Unset /\ name \in DOMAIN d[1]
Entries(d) == IF d = Unset THEN <<>> ELSE d[1]
Put(d, name, v) == Some((name :> v) @@ Entries(d))
Remove(d, name) ==
    Some([ n \in (DOMAIN Entries(d)) \ { name } |-> Entries(d)[n] ])

\* Path(StagedApp).exists()
StagedExists(f) == HasEntry(f.support, CanonicalApp)

\* Path(AppAlias).exists(): follows a symbolic link to its target
AliasExists(f) ==
    \/ f.alias = "app"
    \/ f.alias = "staged_symlink" /\ StagedExists(f)

\* The bundle found at the path handed to ditto, if there is one
SourceOf(f, path) ==
    IF path = AppAlias
    THEN IF f.alias = "app" THEN Some(RunningBundle)
         ELSE IF f.alias = "staged_symlink" /\ StagedExists(f)
              THEN Some(f.support[1][CanonicalApp])
              ELSE Unset
    ELSE Some(RunningBundle)

\* ditto src dst: creates dst and its parents, merges src into an existing dst
Ditto(f, src) ==
    LET old == IF StagedExists(f) THEN f.support[1][CanonicalApp].files
                                  ELSE <<>>
    IN  [ f EXCEPT !.support =
            Put(f.support, CanonicalApp,
                Bundle(src.files @@ old, src.quarantine)) ]

\* cp src dir/: a new file gets the source's mode and the caller's identity,
\* an existing one keeps its mode and owner
CopyInto(d, name, content, mode) ==
    IF HasEntry(d, name)
    THEN Put(d, name, File(content, d[1][name].mode, d[1][name].owner))
    ELSE Put(d, name, File(content, mode, "root:wheel"))

Chmod(d, name, mode) == Put(d, name, [ d[1][name] EXCEPT !.mode = mode ])
Chown(d, name, owner) == Put(d, name, [ d[1][name] EXCEPT !.owner = owner ])

-----------------------------------------------------------------------------
(* State before install_auto_patcher_launch_agent is called *)

InstallConstants(binary, script) ==
    [ wxpython_variant    |-> TRUE,
      launcher_binary     |-> binary,
      launcher_script     |-> script,
      patcher_version     |-> "1.1.0",
      oclp_version        |-> None,
      special_build       |-> FALSE,
      host_is_hackintosh  |-> FALSE,
      booted_oc_disk      |-> None,
      start_build_install |-> FALSE ]

\* A binary can only run from a place where a bundle is
Consistent(c, f) ==
    /\ StartsWith(c.launcher_binary, AppAlias) => AliasExists(f)
    /\ StartsWith(c.launcher_binary, SupportPrefix) => StagedExists(f)

cycleVars == <<pc, constants, dict, detected, patches, versions_match,
               should_notify, root_disk, physical_stores, disk_info, trace,
               prompts, answers, launched>>

InstallInitWith(configs, supports, agents, daemons, aliases, kexts, templates) ==
    /\ pc = "idle"
    /\ constants \in { InstallConstants(c[1], c[2]) : c \in configs }
    /\ dict = Empty
    /\ detected = Unset
    /\ patches = Empty
    /\ versions_match = Unset
    /\ should_notify = Unset
    /\ root_disk = None
    /\ physical_stores = <<>>
    /\ disk_info = Empty
    /\ trace = <<>>
    /\ prompts = <<>>
    /\ answers = <<>>
    /\ launched = <<>>
    /\ ipc = "install"
    /\ fs \in [ support      : supports,
                agents       : agents,
                daemons      : daemons,
                alias        : aliases,
                template     : templates,
                kexts        : kexts,
                os_dmg       : BOOLEAN,
                payload_mode : Modes ]
    /\ Consistent(constants, fs)
    /\ commands = <<>>
    /\ rsr_needed = Unset
    /\ layouts = <<>>

-----------------------------------------------------------------------------
(* Privileged sub-steps *)

\* utilities.process_status: the exit status is logged and execution goes on
ProcessStatus(rc) == "continue"

ThisRun == Len(layouts) + 1
Failures ==
    Cardinality({ i \in 1..Len(commands) :
                    commands[i].run = ThisRun /\ commands[i].rc # 0 })

\* The exit statuses a command may end with: 1 when it cannot succeed,
\* otherwise those of `rcs`, failures being capped per run
Outcomes(possible, rcs) ==
    IF ~possible THEN { 1 }
    ELSE IF Failures < MaxFailures THEN rcs ELSE { 0 }

\* The same with a return to the caller added after a failed command
Step_ReturnsOnFailure(next, needed, argv, possible, rcs, newfs) ==
    IF needed
    THEN \E rc \in Outcomes(possible, rcs) :
            /\ commands' = Append(commands,
                             [ run |-> ThisRun, argv |-> argv, rc |-> rc ])
            /\ fs' = IF rc = 0 THEN newfs ELSE fs
            /\ ipc' = IF rc = 0 THEN next ELSE "installed"
    ELSE /\ ipc' = next
         /\ UNCHANGED <<fs, commands>>

\* utilities.process_status(utilities.elevated(argv)) under `needed`:
\* on success the files become `newfs`, a failure leaves them as they are
Step(next, needed, argv, possible, rcs, newfs) ==
    IF needed
    THEN \E rc \in Outcomes(possible, rcs) :
            /\ commands' = Append(commands,
                             [ run |-> ThisRun, argv |-> argv, rc |-> rc ])
            /\ fs' = IF rc = 0 THEN newfs ELSE fs
            /\ ipc' = IF ProcessStatus(rc) = "continue" THEN next ELSE "raised"
    ELSE /\ ipc' = next
         /\ UNCHANGED <<fs, commands>>

-----------------------------------------------------------------------------
(* _create_rsr_monitor_daemon *)

\* line 346
CryptexPath ==
    "/System/Volumes/Preboot/" \o PrebootUUID \o "/cryptex1/current/OS.dmg"

\* lines 357-359 with `break` in place of `continue`
RECURSIVE ScanKexts_StopsAtBad(_)
ScanKexts_StopsAtBad(kexts) ==
    IF kexts = <<>> THEN <<>>
    ELSE LET kext == Head(kexts)
             rest == ScanKexts_StopsAtBad(Tail(kexts))
         IN  IF kext.plist = "missing" THEN rest
             ELSE IF kext.plist = "unparseable" THEN <<>>
             ELSE IF kext.plist # "GPUCompanionBundles" THEN rest
             ELSE <<kext.name>> \o rest

\* lines 351-363: the names of the kexts whose Info.plist exists, parses and
\* holds GPUCompanionBundles, in glob order
RECURSIVE ScanKexts(_)
ScanKexts(kexts) ==
    IF kexts = <<>> THEN <<>>
    ELSE LET kext == Head(kexts)
             rest == ScanKexts(Tail(kexts))
         IN  IF kext.plist = "missing" THEN rest              \* line 354
             ELSE IF kext.plist = "unparseable" THEN rest     \* line 359
             ELSE IF kext.plist # "GPUCompanionBundles" THEN rest
             ELSE <<kext.name>> \o rest

\* lines 347-349 left out: the kexts alone decide
RsrNeeded_IgnoresDmg(f) == ScanKexts(f.kexts) # <<>>

\* lines 347-349 and 366-368, 388: whether the daemon is needed
RsrNeeded(f) ==
    IF ~f.os_dmg THEN FALSE
    ELSE ScanKexts(f.kexts) # <<>>

\* lines 373-374
RsrArguments(names) ==
    <<"rm", "-Rfv">> \o [ i \in 1..Len(names) |-> "/Library/Extensions/" \o names[i] ]

\* lines 371-386: load the template, replace two fields, write it back
RewriteTemplate(template, names) ==
    [ template EXCEPT !.ProgramArguments = RsrArguments(names),
                      !.WatchPaths = <<CryptexPath>> ]

\* lines 318 and 341-388
CreateRsrMonitorDaemon ==
    /\ ipc = "create_rsr_monitor_daemon"
    /\ rsr_needed' = Some(RsrNeeded(fs))
    /\ fs' = IF RsrNeeded(fs)
             THEN [ fs EXCEPT !.template =
                      RewriteTemplate(fs.template, ScanKexts(fs.kexts)) ]
             ELSE fs
    /\ ipc' = IF RsrNeeded(fs) THEN "rm_daemon" ELSE "make_alias"
    /\ UNCHANGED <<commands, layouts, cycleVars>>

-----------------------------------------------------------------------------
(* install_auto_patcher_launch_agent *)

SupportDir == "/Library/Application Support/Dortania"
LaunchAgents == "/Library/LaunchAgents/"
LaunchDaemons == "/Library/LaunchDaemons/"
AgentTemplatePath == "payloads/Launch Services/" \o AgentPlist
RsrTemplatePath == "payloads/Launch Services/" \o DaemonPlist

\* line 271 left out: only a run from source is skipped
SkipInstall_SourceOnly(c) == c.launcher_script # None

\* lines 267-273: nothing is installed from source or from the staged copy
SkipInstall(c) ==
    \/ c.launcher_script # None
    \/ StartsWith(c.launcher_binary, SupportPrefix)

\* line 289
BundlePath(c) == SplitHead(c.launcher_binary, BinarySuffix)

\* lines 267-277
InstallStart ==
    /\ ipc = "install"
    /\ IF SkipInstall(constants)
       THEN /\ ipc' = "installed"
            /\ layouts' = Append(layouts, fs)
       ELSE /\ ipc' = "mkdir_support"
            /\ layouts' = layouts
    /\ rsr_needed' = Unset
    /\ UNCHANGED <<fs, commands, cycleVars>>

\* lines 279-281: the test is on a path relative to the working directory,
\* whose answer says nothing about /Library/Application Support/Dortania
MkdirSupport(rcs) ==
    /\ ipc = "mkdir_support"
    /\ \E relative_exists \in BOOLEAN :
        Step("rm_bundle", ~relative_exists, <<"mkdir", "-p", SupportDir>>,
             TRUE, rcs, [ fs EXCEPT !.support = Some(Entries(fs.support)) ])
    /\ UNCHANGED <<rsr_needed, layouts, cycleVars>>

\* lines 283-286 with a comparison of content added to the test
RmBundle_IfChanged(rcs) ==
    /\ ipc = "rm_bundle"
    /\ Step("ditto",
            /\ StagedExists(fs)
            /\ fs.support[1][CanonicalApp].files # RunningBundle.files,
            <<"rm", "-R", StagedApp>>, TRUE, rcs,
            [ fs EXCEPT !.support = Remove(fs.support, CanonicalApp) ])
    /\ UNCHANGED <<rsr_needed, layouts, cycleVars>>

\* lines 283-286
RmBundle(rcs) ==
    /\ ipc = "rm_bundle"
    /\ Step("ditto", StagedExists(fs), <<"rm", "-R", StagedApp>>,
            TRUE, rcs,
            [ fs EXCEPT !.support = Remove(fs.support, CanonicalApp) ])
    /\ UNCHANGED <<rsr_needed, layouts, cycleVars>>

\* lines 288-291
DittoBundle(rcs) ==
    /\ ipc = "ditto"
    /\ LET path == BundlePath(constants)
           src  == SourceOf(fs, path)
       IN  Step("rename", TRUE, <<"ditto", path, StagedApp>>,
                src # Unset, rcs, Ditto(fs, src[1]))
    /\ UNCHANGED <<rsr_needed, layouts, cycleVars>>

\* lines 293-298
RenameBundle(rcs) ==
    /\ ipc = "rename"
    /\ LET name == SplitLast(BundlePath(constants), "/")
       IN  Step("xattr", ~StagedExists(fs),
                <<"mv", SupportPrefix \o name, StagedApp>>,
                HasEntry(fs.support, name), rcs,
                [ fs EXCEPT !.support =
                    Put(Remove(fs.support, name), CanonicalApp,
                        fs.support[1][name]) ])
    /\ UNCHANGED <<rsr_needed, layouts, cycleVars>>

\* line 300: run without privileges, its exit status is not looked at
ClearXattr(rcs) ==
    /\ ipc = "xattr"
    /\ \E rc \in Outcomes(StagedExists(fs), rcs) :
        /\ commands' = Append(commands,
                         [ run |-> ThisRun,
                           argv |-> <<"xattr", "-cr", StagedApp>>,
                           rc |-> rc ])
        /\ fs' = IF rc = 0
                 THEN [ fs EXCEPT !.support =
                          Put(fs.support, CanonicalApp,
                              [ fs.support[1][CanonicalApp]
                                  EXCEPT !.quarantine = FALSE ]) ]
                 ELSE fs
    /\ ipc' = "rm_agent"
    /\ UNCHANGED <<rsr_needed, layouts, cycleVars>>

\* lines 304-306 and 320-322: delete the descriptor if it is there
RmDescriptor(next, dir, path, name, rcs) ==
    Step(next, HasEntry(fs[dir], name), <<"rm", path \o name>>, TRUE, rcs,
         [ fs EXCEPT ![dir] = Remove(fs[dir], name) ])

\* lines 307-309 and 323-325: create the directory if it is not there
MkdirDescriptors(next, dir, path, rcs) ==
    Step(next, ~DirExists(fs[dir]), <<"mkdir", "-p", path>>, TRUE, rcs,
         [ fs EXCEPT ![dir] = Some(<<>>) ])

\* lines 310 and 326: copy the descriptor into the directory
CpDescriptor(next, dir, path, name, from, content, rcs) ==
    Step(next, TRUE, <<"cp", from, path>>, DirExists(fs[dir]), rcs,
         [ fs EXCEPT ![dir] =
             CopyInto(fs[dir], name, content, fs.payload_mode) ])

\* lines 314 and 330 left out: the copied descriptor keeps its mode
ChmodDescriptor_Skips(next, dir, path, name, rcs) ==
    Step(next, FALSE, <<"chmod", "644", path \o name>>,
         HasEntry(fs[dir], name), rcs, fs)

\* lines 314 and 330
ChmodDescriptor(next, dir, path, name, rcs) ==
    Step(next, TRUE, <<"chmod", "644", path \o name>>,
         HasEntry(fs[dir], name), rcs,
         [ fs EXCEPT ![dir] = Chmod(fs[dir], name, "644") ])

\* lines 315 and 331
ChownDescriptor(next, dir, path, name, rcs) ==
    Step(next, TRUE, <<"chown", "root:wheel", path \o name>>,
         HasEntry(fs[dir], name), rcs,
         [ fs EXCEPT ![dir] = Chown(fs[dir], name, "root:wheel") ])

\* lines 302-306
RmAgent(rcs) ==
    /\ ipc = "rm_agent"
    /\ RmDescriptor("mkdir_agents", "agents", LaunchAgents, AgentPlist, rcs)
    /\ UNCHANGED <<rsr_needed, layouts, cycleVars>>

\* lines 307-309
MkdirAgents(rcs) ==
    /\ ipc = "mkdir_agents"
    /\ MkdirDescriptors("cp_agent", "agents", LaunchAgents, rcs)
    /\ UNCHANGED <<rsr_needed, layouts, cycleVars>>

\* line 310
CpAgent(rcs) ==
    /\ ipc = "cp_agent"
    /\ CpDescriptor("chmod_agent", "agents", LaunchAgents, AgentPlist,
                    AgentTemplatePath, AgentContent, rcs)
    /\ UNCHANGED <<rsr_needed, layouts, cycleVars>>

\* lines 312-314
ChmodAgent(rcs) ==
    /\ ipc = "chmod_agent"
    /\ ChmodDescriptor("chown_agent", "agents", LaunchAgents, AgentPlist, rcs)
    /\ UNCHANGED <<rsr_needed, layouts, cycleVars>>

\* line 315
ChownAgent(rcs) ==
    /\ ipc = "chown_agent"
    /\ ChownDescriptor("create_rsr_monitor_daemon", "agents", LaunchAgents,
                       AgentPlist, rcs)
    /\ UNCHANGED <<rsr_needed, layouts, cycleVars>>

\* lines 319-322
RmDaemon(rcs) ==
    /\ ipc = "rm_daemon"
    /\ RmDescriptor("mkdir_daemons", "daemons", LaunchDaemons, DaemonPlist, rcs)
    /\ UNCHANGED <<rsr_needed, layouts, cycleVars>>

\* lines 323-325
MkdirDaemons(rcs) ==
    /\ ipc = "mkdir_daemons"
    /\ MkdirDescriptors("cp_daemon", "daemons", LaunchDaemons, rcs)
    /\ UNCHANGED <<rsr_needed, layouts, cycleVars>>

\* line 326
CpDaemon(rcs) ==
    /\ ipc = "cp_daemon"
    /\ CpDescriptor("chmod_daemon", "daemons", LaunchDaemons, DaemonPlist,
                    RsrTemplatePath, fs.template, rcs)
    /\ UNCHANGED <<rsr_needed, layouts, cycleVars>>

\* lines 328-330
ChmodDaemon(rcs) ==
    /\ ipc = "chmod_daemon"
    /\ ChmodDescriptor("chown_daemon", "daemons", LaunchDaemons, DaemonPlist, rcs)
    /\ UNCHANGED <<rsr_needed, layouts, cycleVars>>

\* line 331
ChownDaemon(rcs) ==
    /\ ipc = "chown_daemon"
    /\ ChownDescriptor("make_alias", "daemons", LaunchDaemons, DaemonPlist, rcs)
    /\ UNCHANGED <<rsr_needed, layouts, cycleVars>>

\* line 336: the alias is made when Path.exists() finds nothing
AliasWanted(f) == ~AliasExists(f)

\* lines 336-338 with the test left out and the link forced (ln -sf)
MakeAlias_Force(rcs) ==
    /\ ipc = "make_alias"
    /\ Step("installed", TRUE, <<"ln", "-sf", StagedApp, AppAlias>>,
            TRUE, rcs, [ fs EXCEPT !.alias = "staged_symlink" ])
    /\ layouts' = IF ipc' = "installed" THEN Append(layouts, fs') ELSE layouts
    /\ UNCHANGED <<rsr_needed, cycleVars>>

\* lines 333-338, and the return to the caller
MakeAlias(rcs) ==
    /\ ipc = "make_alias"
    /\ Step("installed", AliasWanted(fs), <<"ln", "-s", StagedApp, AppAlias>>,
            fs.alias = "absent", rcs, [ fs EXCEPT !.alias = "staged_symlink" ])
    /\ layouts' = IF ipc' = "installed" THEN Append(layouts, fs') ELSE layouts
    /\ UNCHANGED <<rsr_needed, cycleVars>>

\* the caller runs the installer once more
InstallAgain ==
    /\ ipc = "installed"
    /\ Len(layouts) < MaxRuns
    /\ ipc' = "install"
    /\ UNCHANGED <<fs, commands, rsr_needed, layouts, cycleVars>>

-----------------------------------------------------------------------------
(* Specifications of the installer *)

Succeeds == { 0 }

\* Runs in succession, every command that can succeed does
InitInstall ==
    InstallInitWith(InstallConfigs, SupportDirs, AgentDirs, DaemonDirs,
                    Aliases, FewKextLists, { ShippedTemplate })

NextInstall ==
    \/ InstallStart
    \/ MkdirSupport(Succeeds)
    \/ RmBundle(Succeeds)
    \/ DittoBundle(Succeeds)
    \/ RenameBundle(Succeeds)
    \/ ClearXattr(Succeeds)
    \/ RmAgent(Succeeds)
    \/ MkdirAgents(Succeeds)
    \/ CpAgent(Succeeds)
    \/ ChmodAgent(Succeeds)
    \/ ChownAgent(Succeeds)
    \/ CreateRsrMonitorDaemon
    \/ RmDaemon(Succeeds)
    \/ MkdirDaemons(Succeeds)
    \/ CpDaemon(Succeeds)
    \/ ChmodDaemon(Succeeds)
    \/ ChownDaemon(Succeeds)
    \/ MakeAlias(Succeeds)
    \/ InstallAgain

SpecInstall == InitInstall /\ [][NextInstall]_vars

-----------------------------------------------------------------------------
(* Properties of the installer *)

\* Every command of run `run` ended with exit status 0
AllSucceeded(run) ==
    \A i \in 1..Len(commands) : commands[i].run = run => commands[i].rc = 0

\* Run `run` issued the command `argv`
Issued(run, argv) ==
    \E i \in 1..Len(commands) :
        commands[i].run = run /\ commands[i].argv = argv

\* The layout a complete installation leaves behind
InstallLayout(f) ==
    /\ StagedExists(f)
    /\ f.support[1][CanonicalApp] = Bundle(RunningBundle.files, FALSE)
    /\ HasEntry(f.agents, AgentPlist)
    /\ f.agents[1][AgentPlist] = File(AgentContent, "644", "root:wheel")
    /\ RsrNeeded(f) =>
        /\ HasEntry(f.daemons, DaemonPlist)
        /\ f.daemons[1][DaemonPlist] = File(f.template, "644", "root:wheel")
    /\ AliasExists(f)

\* C11: when every command of every run so far succeeded, each further run of
\* the installer leaves the files exactly as the first run left them, and
\* (unless the installer skips) that layout is one staged bundle with the
\* source's content, the agent descriptor and, if needed, the daemon
\* descriptor with mode 644 and owner root:wheel, and something at the alias.
C11_SecondRunChangesNothing ==
    (\A r \in 1..Len(layouts) : AllSucceeded(r)) =>
        /\ \A r \in 1..Len(layouts) : layouts[r] = layouts[1]
        /\ (Len(layouts) >= 1 /\ ~SkipInstall(constants)) =>
              InstallLayout(layouts[1])

C11_Witness ==
    /\ Len(layouts) >= 2
    /\ AllSucceeded(1)
    /\ AllSucceeded(2)
    /\ Issued(2, <<"rm", "-R", StagedApp>>)
    /\ Issued(1, <<"ln", "-s", StagedApp, AppAlias>>)
    /\ rsr_needed = Some(TRUE)

\* C12: when the patcher runs from source or from the support directory, no
\* step of the installer issues a command, changes a file or calls the
\* daemon builder.
C12_SkippedInstallTouchesNothing ==
    [][(\/ constants.launcher_script # None
        \/ StartsWith(constants.launcher_binary,
                      "/Library/Application Support/Dortania/")) =>
          /\ commands' = <<>>
          /\ fs' = fs
          /\ rsr_needed' = Unset]_vars

C12_Witness ==
    /\ StartsWith(constants.launcher_binary, SupportPrefix)
    /\ constants.launcher_script = None
    /\ ipc = "installed"
    /\ Len(layouts) >= 2

\* C13: what is at /Applications/OpenCore-Patcher.app changes only from
\* nothing to the symbolic link to the staged bundle; an application or a
\* link that is there is left as it is.
C13_AliasOnlyIfAbsent ==
    [][fs'.alias # fs.alias =>
          /\ fs.alias = "absent"
          /\ fs'.alias = "staged_symlink"
          /\ ipc = "make_alias"]_vars

C13_Witness ==
    /\ ipc = "installed"
    /\ ~SkipInstall(constants)
    /\ fs.alias = "app"
    /\ Issued(1, <<"ditto", BundlePath(constants), StagedApp>>)
    /\ ~Issued(1, <<"ln", "-s", StagedApp, AppAlias>>)

\* C16 as stated: the staged bundle and the agent descriptor are deleted only
\* when their content differs from what is to be installed, and the support
\* directory is created only if it is absent.
C16_ReplacedOnlyOnChange ==
    [][/\ (ipc = "rm_bundle" /\ commands' # commands) =>
              fs.support[1][CanonicalApp].files # RunningBundle.files
       /\ (ipc = "rm_agent" /\ commands' # commands) =>
              fs.agents[1][AgentPlist].content # AgentContent
       /\ (ipc = "mkdir_support" /\ fs'.support # fs.support) =>
              ~DirExists(fs.support)]_vars

\* C16: a run that is not skipped deletes the staged bundle exactly when one is
\* there and the agent descriptor exactly when one is there, whatever their
\* content; the step that makes the support directory changes nothing when
\* the directory exists.
C16_ReplacedWheneverPresent ==
    [][/\ ipc = "rm_bundle" =>
              (Issued(ThisRun, <<"rm", "-R", StagedApp>>)' <=> StagedExists(fs))
       /\ ipc = "rm_agent" =>
              (Issued(ThisRun, <<"rm", LaunchAgents \o AgentPlist>>)'
                  <=> HasEntry(fs.agents, AgentPlist))
       /\ (ipc = "mkdir_support" /\ DirExists(fs.support)) => fs' = fs]_vars

C16_Witness ==
    /\ Len(layouts) >= 1
    /\ AllSucceeded(1)
    /\ InstallLayout(layouts[1])
    /\ layouts[1].support[1][CanonicalApp].files = RunningBundle.files
    /\ layouts[1].agents[1][AgentPlist].content = AgentContent
    /\ Issued(2, <<"rm", "-R", StagedApp>>)
    /\ Issued(2, <<"rm", LaunchAgents \o AgentPlist>>)
    /\ Issued(2, <<"mkdir", "-p", SupportDir>>)

-----------------------------------------------------------------------------
(* The daemon builder over every kext list *)

InitDaemon ==
    InstallInitWith(FewInstallConfigs, { Some(<<>>) }, { Some(<<>>) },
                    DaemonDirs, { "absent" }, KextLists, Templates)

NextDaemon ==
    \/ InstallStart
    \/ MkdirSupport(Succeeds)
    \/ RmBundle(Succeeds)
    \/ DittoBundle(Succeeds)
    \/ RenameBundle(Succeeds)
    \/ ClearXattr(Succeeds)
    \/ RmAgent(Succeeds)
    \/ MkdirAgents(Succeeds)
    \/ CpAgent(Succeeds)
    \/ ChmodAgent(Succeeds)
    \/ ChownAgent(Succeeds)
    \/ CreateRsrMonitorDaemon
    \/ RmDaemon(Succeeds)
    \/ MkdirDaemons(Succeeds)
    \/ CpDaemon(Succeeds)
    \/ ChmodDaemon(Succeeds)
    \/ ChownDaemon(Succeeds)
    \/ MakeAlias(Succeeds)

SpecDaemon == InitDaemon /\ [][NextDaemon]_vars

\* The kexts of /Library/Extensions that carry GPUCompanionBundles
Matching(f) ==
    SelectSeq(f.kexts, LAMBDA kext : kext.plist = "GPUCompanionBundles")

\* The artifact is there and at least one kext carries the key
DaemonExpected(f) == f.os_dmg /\ Matching(f) # <<>>

\* C14: the daemon builder answers true exactly when OS.dmg exists and some
\* kext has a readable Info.plist with GPUCompanionBundles; when it answers
\* false it leaves the template as it was, and from then on the installer
\* issues no copy into /Library/LaunchDaemons and leaves that directory and
\* the template alone.
C14_DaemonOnlyWhenNeeded ==
    [][/\ ipc = "create_rsr_monitor_daemon" =>
              /\ rsr_needed' = Some(DaemonExpected(fs))
              /\ ~DaemonExpected(fs) => fs' = fs
       /\ rsr_needed = Some(FALSE) =>
              /\ fs'.daemons = fs.daemons
              /\ fs'.template = fs.template
              /\ ~Issued(ThisRun, <<"cp", RsrTemplatePath, LaunchDaemons>>)']_vars

C14_Witness ==
    /\ ipc = "installed"
    /\ rsr_needed = Some(FALSE)
    /\ fs.os_dmg
    /\ \E i \in 1..Len(fs.kexts) : fs.kexts[i].plist = "unparseable"
    /\ \E i \in 1..Len(fs.kexts) : fs.kexts[i].plist = "other"
    /\ fs.template = UsedTemplate

\* C17: when OS.dmg exists and some kext carries GPUCompanionBundles, the
\* daemon builder answers true and the template written back holds
\* ProgramArguments = rm, -Rfv and then /Library/Extensions/<name> for exactly
\* the kexts with GPUCompanionBundles, in the order found, whatever kexts
\* with a missing or unreadable Info.plist stand before or after them, and
\* WatchPaths = the one OS.dmg path; nothing of the former lists is left.
C17_DescriptorListsMatchingKexts ==
    (rsr_needed # Unset /\ DaemonExpected(fs)) =>
        /\ rsr_needed = Some(TRUE)
        /\ fs.template.ProgramArguments =
              <<"rm", "-Rfv">> \o
              [ i \in 1..Len(Matching(fs)) |->
                  "/Library/Extensions/" \o Matching(fs)[i].name ]
        /\ fs.template.WatchPaths =
              << "/System/Volumes/Preboot/" \o PrebootUUID
                    \o "/cryptex1/current/OS.dmg" >>

C17_Witness ==
    /\ ipc = "installed"
    /\ rsr_needed = Some(TRUE)
    /\ Len(fs.kexts) = 2
    /\ fs.kexts[1].plist = "unparseable"
    /\ fs.kexts[2].plist = "GPUCompanionBundles"
    /\ fs.daemons[1][DaemonPlist].content = fs.template

-----------------------------------------------------------------------------
(* The installer with commands that fail *)

MayFail == { 0, 1 }

InitInstallFail ==
    InstallInitWith(FewInstallConfigs, FewSupportDirs, AgentDirs,
                    { Some(<<>>) }, Aliases,
                    { <<Kext("AMDRadeonX4000.kext", "GPUCompanionBundles")>> },
                    { ShippedTemplate })

NextInstallFail ==
    \/ InstallStart
    \/ MkdirSupport(MayFail)
    \/ RmBundle(MayFail)
    \/ DittoBundle(MayFail)
    \/ RenameBundle(MayFail)
    \/ ClearXattr(MayFail)
    \/ RmAgent(MayFail)
    \/ MkdirAgents(MayFail)
    \/ CpAgent(MayFail)
    \/ ChmodAgent(MayFail)
    \/ ChownAgent(MayFail)
    \/ CreateRsrMonitorDaemon
    \/ RmDaemon(MayFail)
    \/ MkdirDaemons(MayFail)
    \/ CpDaemon(MayFail)
    \/ ChmodDaemon(MayFail)
    \/ ChownDaemon(MayFail)
    \/ MakeAlias(MayFail)

SpecInstallFail == InitInstallFail /\ [][NextInstallFail]_vars

\* The step that follows each step that issues a command
Following ==
    [ mkdir_support |-> "rm_bundle",
      rm_bundle     |-> "ditto",
      ditto         |-> "rename",
      rename        |-> "xattr",
      xattr         |-> "rm_agent",
      rm_agent      |-> "mkdir_agents",
      mkdir_agents  |-> "cp_agent",
      cp_agent      |-> "chmod_agent",
      chmod_agent   |-> "chown_agent",
      chown_agent   |-> "create_rsr_monitor_daemon",
      rm_daemon     |-> "mkdir_daemons",
      mkdir_daemons |-> "cp_daemon",
      cp_daemon     |-> "chmod_daemon",
      chmod_daemon  |-> "chown_daemon",
      chown_daemon  |-> "make_alias",
      make_alias    |-> "installed" ]

-----------------------------------------------------------------------------
(* The boot disk and the disks of the physical stores *)

\* _determine_if_boot_matches compared the disks and returned at line 223
TreatedAsMatch ==
    /\ root_disk # None
    /\ InTrace("find_apfs_physical_volume")
    /\ ~InTrace("diskutil_info")
    /\ pc = "done"

\* C21: the disks are treated as matching only if some physical store is a
\* partition of the very disk the machine booted from (its base token equals
\* the normalized boot token); a boot token that is only a textual prefix of
\* a store's identifier, as disk1 is of disk10s2, does not match and the
\* removability lookup follows.
C21_MatchOnlySameDisk ==
    TreatedAsMatch =>
        \E i \in 1..Len(physical_stores), n \in DiskNumbers :
            /\ root_disk = "disk" \o n
            /\ StoreOnDisk(physical_stores[i], n)

====
